---- MODULE Spec2Model ----
(***************************************************************************)
(* tlogistry: a read-only registry proxy that pins tags to digests through *)
(* a transparency log (Rekor).  The model covers main.go (handler, proxy,  *)
(* getToken, serveError) and internal/rekor/rekor.go (email, Put, Get).    *)
(*                                                                         *)
(* Go strings are atomic here.  A URL path is given by the result of       *)
(* strings.Split(path, "/"); a tag string (name.Tag.String()) is the       *)
(* tuple <<registry, repository, tag>> of its three textual components.    *)
(***************************************************************************)
EXTENDS Integers, Sequences, FiniteSets, TLC

\* ------------------------------------------------------------------ bounds
\* Entries this process writes to the log before the model stops recording.
MaxPuts == 2
\* Entries other parties wrote to the public log before the process started.
MaxForeign == 1

\* Concurrent handler goroutines (net/http serves each request on its own).
Handlers == {1, 2}

\* ------------------------------------------------------------ HTTP statuses
StatusOK == 200
StatusBadRequest == 400
StatusUnauthorized == 401
StatusMethodNotAllowed == 405
StatusInternalServerError == 500

\* ----------------------------------------------------------------- strings
\* The deployment identity returned by the metadata server (email()).
Me == "tlogistry@svc"
Other == "other@service"

DigestA == "sha256:aaa"
DigestB == "sha256:bbb"
DigestZ == "sha256:zzz"
\* Values of the upstream Docker-Content-Digest header; "" is Header.Get of
\* an absent header.
UpstreamDigests == {"", DigestA, DigestB}

\* strings.HasPrefix(s, "sha256:") over the strings of the model.
HasPrefixSha256(s) == s \in {"sha256:ccc", DigestA, DigestB, DigestZ}

\* ------------------------------------------------------------ name parsing
\* Path components name.NewRepository accepts (lower case, non-empty).
ValidComponents == {"reg.example", "img", "library"}
\* Components that name a registry host (they hold a "." or a ":").
RegistryHosts == {"reg.example"}
DefaultRegistry == "index.docker.io"
\* Tag names name.NewTag accepts.
ValidTagNames == {"v1", "list"}

\* parts[2:len(parts)-2] of main.go, in 1-based indices.
RepoParts(parts) == SubSeq(parts, 3, Len(parts) - 2)

\* The slice expression panics when its low bound exceeds its high bound.
SlicePanics(parts) == Len(parts) - 2 < 2

\* name.NewRepository fails on the empty string and on an invalid component.
NewRepositoryFails(segs) ==
    \/ segs = <<>>
    \/ \E i \in 1..Len(segs) : segs[i] \notin ValidComponents

\* name.NewRepository: the registry defaults to Docker Hub, where a
\* single-component repository lives under library/.
NewRepository(segs) ==
    IF Len(segs) > 1 /\ segs[1] \in RegistryHosts
    THEN [registry |-> segs[1], repository |-> Tail(segs)]
    ELSE [registry |-> DefaultRegistry,
          repository |-> IF Len(segs) = 1 THEN <<"library">> \o segs ELSE segs]

NewTagFails(tagstr) == tagstr \notin ValidTagNames

\* name.NewTag(repo.String() + ":" + tagstr), as its String().
NewTag(repo, tagstr) == <<repo.registry, repo.repository, tagstr>>

\* The kind and reference segments of the path.
KindOf(parts) == parts[Len(parts) - 1]
RefOf(parts) == parts[Len(parts)]

IsManifestTagRequestMutAnyKind(parts) ==
    KindOf(parts) # "blobs" /\ ~HasPrefixSha256(RefOf(parts))

\* parts[len(parts)-2] == "manifests" &&
\*     !strings.HasPrefix(parts[len(parts)-1], "sha256:")
IsManifestTagRequest(parts) ==
    KindOf(parts) = "manifests" /\ ~HasPrefixSha256(RefOf(parts))

\* fmt.Sprintf("%x", sha256.Sum256([]byte(s))): collision-free over the
\* strings of the model.
Sha256Hex(s) == <<"sha256hex", s>>

\* --------------------------------------------------------- the log (Rekor)
\* A log entry as rekor.Get reads it:
\*   uuid, logIndex, integratedTime  assigned by the log on creation
\*   key             the index key the entry is found under (subject digest)
\*   body            "nil" | "notb64" | "notjson" | "ok"     (le.Body)
\*   publicKey       "empty" | "notpem" | "notcert" | "cert" (spec.publicKey)
\*   chain           the certificate verifies against the Fulcio roots
\*   emails          cert.EmailAddresses
\*   att             "nil" | "notjson" | "ok"                (le.Attestation)
\*   predicateType, tag, digest   the decoded attestation
PredicateType == "tlogistry-fetched"

PutEntryMutRepoKey(n, tag, digest, identity) ==
    [uuid |-> <<"uuid", n>>, logIndex |-> n - 1, integratedTime |-> n,
     key |-> Sha256Hex(<<tag[1], tag[2], "">>), body |-> "ok", publicKey |-> "cert",
     chain |-> TRUE, emails |-> <<identity>>, att |-> "ok",
     predicateType |-> PredicateType, tag |-> tag, digest |-> digest]

\* The entry CreateLogEntry stores for the envelope and certificate Put
\* builds: subject digest hex(SHA-256(tag)), predicate {tag, digest}, a
\* Fulcio certificate for the identity of the token.
PutEntry(n, tag, digest, identity) ==
    [uuid |-> <<"uuid", n>>, logIndex |-> n - 1, integratedTime |-> n,
     key |-> Sha256Hex(tag), body |-> "ok", publicKey |-> "cert",
     chain |-> TRUE, emails |-> <<identity>>, att |-> "ok",
     predicateType |-> PredicateType, tag |-> tag, digest |-> digest]

InfoOfMutIndexAsTime(e) ==
    [UUID |-> e.uuid, LogIndex |-> e.logIndex, IntegratedTime |-> e.logIndex]

\* rekor.Info of an entry.
InfoOf(e) ==
    [UUID |-> e.uuid, LogIndex |-> e.logIndex, IntegratedTime |-> e.integratedTime]

SearchKeyMutRepository(tag) == Sha256Hex(<<tag[1], tag[2], "">>)

\* The hash rekor.Get queries the index by:
\* fmt.Sprintf("%x", sha256.Sum256([]byte(tag.String()))).
SearchKey(tag) == Sha256Hex(tag)

\* SearchIndex: the entries indexed under a key, in log order.
SearchIndex(entries, key) == SelectSeq(entries, LAMBDA e : e.key = key)

\* One iteration of the loop of rekor.Get up to the identity comparison:
\*   "skip"   continue
\*   "panic"  le.Attestation is a nil pointer and le.Attestation.Data is read
\*   "error"  Get returns an error
\*   "email"  the entry reaches cert.EmailAddresses[0] != email()
EntryStep(e, tag, fetchFail) ==
    IF e.uuid \in fetchFail THEN "skip"
    ELSE IF e.body = "nil" THEN "skip"
    ELSE IF e.att = "nil" THEN "panic"
    ELSE IF e.att = "notjson" THEN "skip"
    ELSE IF e.predicateType # PredicateType THEN "skip"
    ELSE IF e.tag # tag THEN "skip"
    ELSE IF e.body = "notb64" THEN "error"
    ELSE IF e.body = "notjson" THEN "error"
    ELSE IF e.publicKey = "empty" THEN "skip"
    ELSE IF e.publicKey = "notpem" THEN "skip"
    ELSE IF e.publicKey = "notcert" THEN "skip"
    ELSE IF ~e.chain THEN "skip"
    ELSE IF Len(e.emails) # 1 THEN "skip"
    ELSE "email"

FoundPutMutNoCollapse(found, e) ==
    LET k == IF e.digest \in DOMAIN found THEN "duplicate" ELSE e.digest
    IN  [d \in DOMAIN found \cup {k} |-> IF d = k THEN InfoOf(e) ELSE found[d]]

\* found[att.Predicate.Digest] = &Info{...}
FoundPut(found, e) ==
    [d \in DOMAIN found \cup {e.digest} |->
        IF d = e.digest THEN InfoOf(e) ELSE found[d]]

\* The loop of rekor.Get over the search hits.  known: email() already ran
\* in this process; emailWorks: the metadata server answers a first call.
\* Yields [kind, found, called]: kind "end" when the loop ran to its end.
RECURSIVE GetLoop(_, _, _, _, _, _)
GetLoop(hits, tag, fetchFail, known, emailWorks, found) ==
    IF hits = <<>> THEN [kind |-> "end", found |-> found, called |-> known]
    ELSE LET e == Head(hits)
             step == EntryStep(e, tag, fetchFail)
         IN  IF step = "skip"
             THEN GetLoop(Tail(hits), tag, fetchFail, known, emailWorks, found)
             ELSE IF step = "email"
             THEN IF ~known /\ ~emailWorks
                  THEN [kind |-> "fatal", found |-> found, called |-> FALSE]
                  ELSE GetLoop(Tail(hits), tag, fetchFail, TRUE, emailWorks,
                               IF e.emails[1] = Me THEN FoundPut(found, e) ELSE found)
             ELSE [kind |-> step, found |-> found, called |-> known]

EmptyFound == [d \in {} |-> 0]

\* switch len(found): the digest and info Get returns, or its error.
FoundResult(found) ==
    IF Cardinality(DOMAIN found) = 0
    THEN [kind |-> "ok", digest |-> "", info |-> <<>>]
    ELSE IF Cardinality(DOMAIN found) = 1
    THEN LET d == CHOOSE x \in DOMAIN found : TRUE
         IN  [kind |-> "ok", digest |-> d, info |-> <<found[d]>>]
    ELSE [kind |-> "error", digest |-> "", info |-> <<>>]

\* rekor.Get(ctx, tag).  env: "roots" (fulcioroots fails), "search"
\* (SearchIndex fails) or "ok".  Yields [kind, digest, info, called] with
\* kind "ok" | "error" | "panic" | "fatal" (email() ended the process).
Get(entries, tag, env, fetchFail, known, emailWorks) ==
    IF env # "ok"
    THEN [kind |-> "error", digest |-> "", info |-> <<>>, called |-> known]
    ELSE LET hits == SearchIndex(entries, SearchKey(tag))
         IN  IF Len(hits) = 0
             THEN [kind |-> "ok", digest |-> "", info |-> <<>>, called |-> known]
             ELSE LET l == GetLoop(hits, tag, fetchFail, known, emailWorks, EmptyFound)
                      r == FoundResult(l.found)
                  IN  IF l.kind = "end"
                      THEN [kind |-> r.kind, digest |-> r.digest,
                            info |-> r.info, called |-> l.called]
                      ELSE [kind |-> l.kind, digest |-> "",
                            info |-> <<>>, called |-> l.called]

\* Put(ctx, tag, digest).  outcome names the first step that fails:
\*   "idtoken" | "key"   before email() is read (lines 116-129)
\*   "cert" | "sign" | "create"   after it, before the entry exists
\*   "decode"   the entry was created, its body does not base64-decode
\*   "ok"
\* Yields [kind, entries, info, called]; kind "fatal": email() ended the
\* process.
PutOutcomes == {"idtoken", "key", "cert", "sign", "create", "decode", "ok"}

PutMutIdtokenFatal(entries, tag, digest, outcome, known, emailWorks) ==
    IF outcome = "idtoken"
    THEN [kind |-> "fatal", entries |-> entries, info |-> <<>>, called |-> known]
    ELSE IF outcome = "key"
    THEN [kind |-> "error", entries |-> entries, info |-> <<>>, called |-> known]
    ELSE IF ~known /\ ~emailWorks
    THEN [kind |-> "fatal", entries |-> entries, info |-> <<>>, called |-> FALSE]
    ELSE IF outcome \in {"cert", "sign", "create"}
    THEN [kind |-> "error", entries |-> entries, info |-> <<>>, called |-> TRUE]
    ELSE LET e == PutEntry(Len(entries) + 1, tag, digest, Me)
         IN  IF outcome = "decode"
             THEN [kind |-> "error", entries |-> Append(entries, e),
                   info |-> <<>>, called |-> TRUE]
             ELSE [kind |-> "ok", entries |-> Append(entries, e),
                   info |-> <<InfoOf(e)>>, called |-> TRUE]

Put(entries, tag, digest, outcome, known, emailWorks) ==
    IF outcome \in {"idtoken", "key"}
    THEN [kind |-> "error", entries |-> entries, info |-> <<>>, called |-> known]
    ELSE IF ~known /\ ~emailWorks
    THEN [kind |-> "fatal", entries |-> entries, info |-> <<>>, called |-> FALSE]
    ELSE IF outcome \in {"cert", "sign", "create"}
    THEN [kind |-> "error", entries |-> entries, info |-> <<>>, called |-> TRUE]
    ELSE LET e == PutEntry(Len(entries) + 1, tag, digest, Me)
         IN  IF outcome = "decode"
             THEN [kind |-> "error", entries |-> Append(entries, e),
                   info |-> <<>>, called |-> TRUE]
             ELSE [kind |-> "ok", entries |-> Append(entries, e),
                   info |-> <<InfoOf(e)>>, called |-> TRUE]

\* ------------------------------------------------------- upstream registry
\* getToken(repo).  A scenario gives what the registry and the token realm
\* answer: pingErr (the GET of /v2/ fails), ping (its status), scheme (of
\* the first challenge, "" when there is none), realmErr (the GET of the
\* realm fails), realm (its status), decodes (its body is JSON).
\* Yields [err, token].
TokenScenario(pingErr, ping, scheme, realmErr, realm, decodes) ==
    [pingErr |-> pingErr, ping |-> ping, scheme |-> scheme,
     realmErr |-> realmErr, realm |-> realm, decodes |-> decodes]

TokenScenarios ==
    { TokenScenario(TRUE, 0, "", FALSE, 0, FALSE),
      TokenScenario(FALSE, 200, "", FALSE, 0, FALSE),
      TokenScenario(FALSE, 500, "", FALSE, 0, FALSE),
      TokenScenario(FALSE, 401, "", FALSE, 0, FALSE),
      TokenScenario(FALSE, 401, "basic", FALSE, 0, FALSE),
      TokenScenario(FALSE, 401, "bearer", TRUE, 0, FALSE),
      TokenScenario(FALSE, 401, "bearer", FALSE, 403, FALSE),
      TokenScenario(FALSE, 401, "bearer", FALSE, 200, FALSE),
      TokenScenario(FALSE, 401, "bearer", FALSE, 200, TRUE) }

\* The scenarios the handlers of the model meet: an anonymous registry, a
\* bearer realm that issues a token, and a failing registry.
ServeTokenScenarios ==
    { TokenScenario(FALSE, 200, "", FALSE, 0, FALSE),
      TokenScenario(FALSE, 401, "bearer", FALSE, 200, TRUE),
      TokenScenario(FALSE, 500, "", FALSE, 0, FALSE) }

getTokenMutNoChallengeIsError(sc) ==
    IF sc.pingErr THEN [err |-> TRUE, token |-> ""]
    ELSE IF sc.ping = StatusOK THEN [err |-> FALSE, token |-> ""]
    ELSE IF sc.ping # StatusUnauthorized THEN [err |-> TRUE, token |-> ""]
    ELSE IF sc.scheme # "bearer" THEN [err |-> TRUE, token |-> ""]
    ELSE IF sc.realmErr THEN [err |-> TRUE, token |-> ""]
    ELSE IF sc.realm # StatusOK THEN [err |-> TRUE, token |-> ""]
    ELSE IF ~sc.decodes THEN [err |-> TRUE, token |-> ""]
    ELSE [err |-> FALSE, token |-> "tok"]

getToken(sc) ==
    IF sc.pingErr THEN [err |-> TRUE, token |-> ""]
    ELSE IF sc.ping = StatusOK THEN [err |-> FALSE, token |-> ""]
    ELSE IF sc.ping # StatusUnauthorized THEN [err |-> TRUE, token |-> ""]
    ELSE IF sc.scheme = "" THEN [err |-> FALSE, token |-> ""]
    ELSE IF sc.scheme # "bearer" THEN [err |-> TRUE, token |-> ""]
    ELSE IF sc.realmErr THEN [err |-> TRUE, token |-> ""]
    ELSE IF sc.realm # StatusOK THEN [err |-> TRUE, token |-> ""]
    ELSE IF ~sc.decodes THEN [err |-> TRUE, token |-> ""]
    ELSE [err |-> FALSE, token |-> "tok"]

\* What http.DefaultTransport.RoundTrip yields: a transport error, or a
\* response with a status and headers.  digest "" is a response without a
\* Docker-Content-Digest header.
UpstreamResults ==
    { [err |-> TRUE, status |-> 0, digest |-> ""] } \cup
    { [err |-> FALSE, status |-> StatusOK, digest |-> d] : d \in UpstreamDigests } \cup
    { [err |-> FALSE, status |-> 404, digest |-> ""] }

\* --------------------------------------------------------- response writer
EmptyHeader == [n \in {} |-> ""]

\* Header.Set / the single Header.Add of a name.
SetHeader(header, name, value) ==
    [n \in DOMAIN header \cup {name} |-> IF n = name THEN value ELSE header[n]]

\* The headers of an upstream response.
UpstreamHeader(resp) ==
    IF resp.digest = ""
    THEN SetHeader(EmptyHeader, "Content-Type", "application/json")
    ELSE SetHeader(SetHeader(EmptyHeader, "Content-Type", "application/json"),
                   "Docker-Content-Digest", resp.digest)

\* for k, v := range resp.Header { w.Header().Add(k, vv) }
CopyHeader(header, from) ==
    [n \in DOMAIN header \cup DOMAIN from |->
        IF n \in DOMAIN from THEN from[n] ELSE header[n]]

\* The response writer: status 0 while no status line is written; code and
\* message of the registry error body; body "none" | "error" | "upstream".
NewWriter ==
    [status |-> 0, code |-> "", message |-> <<>>, header |-> EmptyHeader,
     body |-> "none"]

\* net/http recovers a panicking handler and closes the connection.
Aborted == [NewWriter EXCEPT !.body = "aborted"]

regError(status, code, message) ==
    [status |-> status, code |-> code, message |-> message]

\* digestMismatch(tag, got, want)
digestMismatch(tag, got, want) ==
    regError(StatusBadRequest, "TAG_INVALID",
             <<"tag %q mismatch; got %q, want %q", tag, got, want>>)

\* newRegError(err)
newRegError(what) == regError(StatusInternalServerError, "INTERNAL_ERROR", <<what>>)

\* serveError(w, re): http.Error writes the status with a text/plain content
\* type, then the JSON error body follows.
serveError(w, re) ==
    [w EXCEPT !.status = re.status, !.code = re.code, !.message = re.message,
              !.header = SetHeader(@, "Content-Type", "text/plain; charset=utf-8"),
              !.body = "error"]

\* fmt.Sprintf("%d", n) and Time.Format(time.RFC3339) of time.Unix(sec, 0).
FormatDecimal(n) == <<"%d", n>>
FormatRFC3339(sec) == <<"RFC3339", sec>>

\* ---------------------------------------------------------------- requests
Request(method, parts, authorization) ==
    [method |-> method, parts |-> parts, authorization |-> authorization]

\* strings.Split(r.URL.Path, "/") of the request paths of the model.
PathRoot == <<"", "v2", "">>
PathRootBare == <<"", "v2">>
PathShort == <<"", "v2", "img">>
PathNoRepo == <<"", "v2", "manifests", "v1">>
PathTag == <<"", "v2", "reg.example", "img", "manifests", "v1">>
PathBadRepo == <<"", "v2", "reg.example", "IMG", "manifests", "v1">>
PathBadTag == <<"", "v2", "reg.example", "img", "manifests", "v1!">>
PathDigest == <<"", "v2", "reg.example", "img", "manifests", "sha256:ccc">>
PathBlob == <<"", "v2", "img", "blobs", "sha256:ccc">>
PathTagsList == <<"", "v2", "reg.example", "img", "tags", "list">>

Paths ==
    {PathRoot, PathRootBare, PathShort, PathNoRepo, PathTag,
     PathBadRepo, PathBadTag, PathDigest, PathBlob, PathTagsList}

\* The requests clients send: every path by GET without credentials, and
\* some by HEAD, by a writing method, or with an Authorization header.
Requests ==
    { Request("GET", p, "") : p \in Paths } \cup
    { Request("HEAD", PathBlob, ""),
      Request("POST", PathRoot, ""),
      Request("POST", PathShort, ""),
      Request("POST", PathTag, ""),
      Request("GET", PathDigest, "Basic client"),
      Request("GET", PathTag, "Basic client") }

\* The tag strings the requests of the model resolve to.
TagOf(parts) == NewTag(NewRepository(RepoParts(parts)), RefOf(parts))
Tags == {TagOf(PathTag)}

\* ------------------------------------------------------- other log writers
\* The log is public: anyone may create entries under any index key.  What
\* nobody else can obtain is a Fulcio certificate for the identity Me, so
\* an entry of another party never has a verifying chain with emails <<Me>>.
ForeignBase(tag) == PutEntry(1, tag, DigestZ, Other)

\* Entries of other parties under the index key of a tag: a well-formed
\* entry of identity Other, one whose attestation the log did not store,
\* one whose body is not base64, and one with a self-made certificate that
\* names Me.
ForeignShapes(tag) ==
    LET b == ForeignBase(tag)
    IN  { b,
          [b EXCEPT !.att = "nil"],
          [b EXCEPT !.body = "notb64"],
          [b EXCEPT !.chain = FALSE, !.emails = <<Me>>] }

\* The log stamps uuid, index and time on an entry it accepts.
Stamp(e, n) ==
    [e EXCEPT !.uuid = <<"uuid", n>>, !.logIndex = n - 1, !.integratedTime = n]

\* The logs the process may find when it starts: up to MaxForeign entries
\* of other parties.
RECURSIVE ForeignLogs(_)
ForeignLogs(n) ==
    IF n = 0 THEN {<<>>}
    ELSE LET shorter == ForeignLogs(n - 1)
         IN  shorter \cup
             { Append(l, Stamp(e, Len(l) + 1)) :
                 l \in {k \in shorter : Len(k) = n - 1},
                 e \in UNION {ForeignShapes(t) : t \in Tags} }

\* An entry this process wrote: only Put obtains a certificate for Me.
Ours(e) == e.chain /\ e.emails = <<Me>> /\ e.publicKey = "cert"

\* ------------------------------------------------------------------- state
VARIABLES
    log,          \* the transparency log: a sequence of entries, append-only
    emailOnce,    \* emailOnce.Do has run: internalEmail holds the identity
    alive,        \* FALSE once log.Fatalf ended the process
    hs,           \* per handler goroutine: its position and locals
    firstServed,  \* per tag: the digest of the first response served for it
    conf          \* env: the configured timeouts, and per log-client
                  \* operation the timeout its parameters were last given

vars == <<log, emailOnce, alive, hs, firstServed, conf>>

\* The operations of the log client.
LogOps == {"CreateLogEntry", "SearchIndex", "GetLogEntryByUUID"}

\* env as envconfig.Process fills it (durations in minutes); used[op] is 0
\* while op was not called.
Conf(fulcio, rekor) ==
    [FulcioTimeout |-> fulcio, RekorTimeout |-> rekor,
     used |-> [op \in LogOps |-> 0]]

\* default:"1m" for both timeouts.
DefaultConf == Conf(1, 1)

\* A handler goroutine: pc is its position ("idle", the outbound call it is
\* about to make, "done" when the response is written, "fatal" after
\* log.Fatalf); the other fields are the locals of proxy().  trace lists the
\* outbound calls made for the request, in order; at is the length of the
\* log when rekor.Get searched it (the log only grows, so this fixes the log
\* the lookup saw); put is how rekor.Put returned ("" while not called,
\* "ok", "error"); writes lists the uuids of the log entries the request
\* created; putErr is the step of rekor.Put that failed ("" when none);
\* probe, where a specification records it, is what the registry and the
\* token realm answered to getToken and the Authorization header the
\* upstream request was given; cancelled, once the client has gone away and
\* r.Context() is done, holds the number of outbound calls made until then.
Idle ==
    [pc |-> "idle", r |-> Request("", <<>>, ""), tag |-> <<>>,
     isManifestTagRequest |-> FALSE, authorization |-> "",
     wantDigest |-> "", info |-> <<>>, resp |-> <<>>, gotDigest |-> "",
     w |-> NewWriter, trace |-> <<>>, at |-> 0, put |-> "", writes |-> <<>>,
     putErr |-> "", probe |-> <<>>, cancelled |-> <<>>]

Init ==
    /\ log \in ForeignLogs(MaxForeign)
    /\ emailOnce = FALSE
    /\ alive = TRUE
    /\ hs = [h \in Handlers |-> Idle]
    /\ firstServed = [t \in Tags |-> ""]
    /\ conf = DefaultConf

\* ----------------------------------------------------------------- proxy()
MethodAllowedMutAny(method) == method \in {"GET", "HEAD", "POST", "PUT"}

\* r.Method == GET || r.Method == HEAD
MethodAllowed(method) == method \in {"GET", "HEAD"}

ConsistencyFailsMutSkipEmpty(wantDigest, gotDigest) ==
    wantDigest # "" /\ gotDigest # "" /\ gotDigest # wantDigest

\* wantDigest != "" && gotDigest != wantDigest
ConsistencyFails(wantDigest, gotDigest) ==
    wantDigest # "" /\ gotDigest # wantDigest

ShouldRecordMutEmptyDigest(isTag, gotDigest, wantDigest) ==
    isTag /\ wantDigest = ""

ShouldRecordMutAnyRequest(isTag, gotDigest, wantDigest) ==
    gotDigest # "" /\ wantDigest = ""

\* isManifestTagRequest && gotDigest != "" && wantDigest == ""
ShouldRecord(isTag, gotDigest, wantDigest) ==
    isTag /\ gotDigest # "" /\ wantDigest = ""

CopiesBodyMutAlways(parts) == TRUE

\* parts[len(parts)-2] != "blobs"
CopiesBody(parts) == KindOf(parts) # "blobs"

\* "Bearer " + t
Bearer(t) == IF t = "" THEN "Bearer " ELSE "Bearer tok"

AfterLookupMutAlwaysToken(x) == "token"

\* The position after the lookup: getToken when the request carries no
\* Authorization header, the upstream fetch otherwise.
AfterLookup(x) == IF x.authorization = "" THEN "token" ELSE "fetch"

\* The handler returned (or panicked) with response w.
Done(x, w) == [x EXCEPT !.pc = "done", !.w = w]

\* handler() and proxy() up to the first outbound call of request r.
Handle(r) ==
    LET x == [Idle EXCEPT !.r = r, !.authorization = r.authorization]
    IN  IF ~MethodAllowed(r.method)
        THEN Done(x, serveError(NewWriter,
                 regError(StatusMethodNotAllowed, "DENIED", <<"tlogistry is read-only">>)))
        ELSE IF r.parts \in {PathRoot, PathRootBare}
        THEN Done(x, [NewWriter EXCEPT
                 !.status = StatusOK,
                 !.header = SetHeader(@, "Docker-Distribution-API-Version", "registry/2.0")])
        ELSE IF SlicePanics(r.parts)
        THEN Done(x, Aborted)
        ELSE IF NewRepositoryFails(RepoParts(r.parts))
        THEN Done(x, serveError(NewWriter,
                 regError(StatusBadRequest, "NAME_INVALID", <<"parsing repository name">>)))
        ELSE IF IsManifestTagRequest(r.parts)
        THEN IF NewTagFails(RefOf(r.parts))
             THEN Done(x, serveError(NewWriter,
                      regError(StatusBadRequest, "NAME_INVALID", <<"parsing tag">>)))
             ELSE [x EXCEPT !.pc = "lookup", !.isManifestTagRequest = TRUE,
                            !.tag = TagOf(r.parts)]
        ELSE [x EXCEPT !.pc = AfterLookup(x)]

\* Lines 182-192 of proxy(): the TLog headers of info, the upstream status,
\* the body unless the request is for a blob.
Finish(x) ==
    LET h1 == IF x.info = <<>> THEN x.w.header
              ELSE SetHeader(SetHeader(SetHeader(x.w.header,
                       "TLog-UUID", x.info[1].UUID),
                       "TLog-LogIndex", FormatDecimal(x.info[1].LogIndex)),
                       "TLog-IntegratedTime", FormatRFC3339(x.info[1].IntegratedTime))
    IN  Done(x, [x.w EXCEPT !.header = h1, !.status = x.resp[1].status,
                            !.body = IF CopiesBody(x.r.parts) THEN "upstream" ELSE "none"])

\* What the environment answers to one rekor.Get: env "roots" (fulcioroots
\* fails), "search" (SearchIndex fails) or "ok"; fetchFail, the uuids whose
\* GetLogEntryByUUID fails; emailWorks, whether the metadata server answers
\* a first call of email().
LookupInput(env, fetchFail, emailWorks) ==
    [env |-> env, fetchFail |-> fetchFail, emailWorks |-> emailWorks]

LookupStepMutCached(x, entries, known, in) ==
    LET y == [x EXCEPT !.trace = Append(@, "lookup"), !.at = Len(entries)]
        g == Get(entries, y.tag, in.env, in.fetchFail, known, in.emailWorks)
    IN  [called |-> IF firstServed[y.tag] # "" THEN known ELSE g.called,
         x |-> IF firstServed[y.tag] # ""
               THEN [y EXCEPT !.wantDigest = firstServed[y.tag],
                              !.pc = AfterLookup(y)]
               ELSE IF g.kind = "fatal" THEN [y EXCEPT !.pc = "fatal"]
               ELSE IF g.kind = "panic" THEN Done(y, Aborted)
               ELSE IF g.kind = "error"
               THEN Done(y, serveError(y.w, newRegError("looking up digest for tag")))
               ELSE [y EXCEPT !.wantDigest = g.digest, !.info = g.info,
                              !.pc = AfterLookup(y)]]

\* wantDigest, info, err = rekor.Get(ctx, tag) and lines 128-133.
\* Yields the handler and whether email() has run.
LookupStep(x, entries, known, in) ==
    LET y == [x EXCEPT !.trace = Append(@, "lookup"), !.at = Len(entries)]
        g == Get(entries, y.tag, in.env, in.fetchFail, known, in.emailWorks)
    IN  [called |-> g.called,
         x |-> IF g.kind = "fatal" THEN [y EXCEPT !.pc = "fatal"]
               ELSE IF g.kind = "panic" THEN Done(y, Aborted)
               ELSE IF g.kind = "error"
               THEN Done(y, serveError(y.w, newRegError("looking up digest for tag")))
               ELSE [y EXCEPT !.wantDigest = g.digest, !.info = g.info,
                              !.pc = AfterLookup(y)]]

\* t, err := getToken(repo) and lines 143-147.
TokenStep(x, sc) ==
    LET y == [x EXCEPT !.trace = Append(@, "token")]
        t == getToken(sc)
    IN  IF t.err
        THEN Done(y, serveError(y.w, newRegError("getting token")))
        ELSE [y EXCEPT !.authorization = Bearer(t.token), !.pc = "fetch"]

\* The upstream round trip, the consistency rule and the copy of the
\* upstream headers (lines 150-173); a request that does not record ends.
\* req is not read after the round trip: its Authorization is forgotten.
FetchStep(x, up) ==
    LET x1 == [x EXCEPT !.trace = Append(@, "fetch"), !.authorization = ""]
        y == [x1 EXCEPT !.resp = <<up>>, !.gotDigest = up.digest]
        z == [y EXCEPT !.w.header = CopyHeader(@, UpstreamHeader(up))]
    IN  IF up.err
        THEN Done(x1, serveError(x1.w, newRegError("fetching")))
        ELSE IF ConsistencyFails(y.wantDigest, y.gotDigest)
        THEN Done(y, serveError(y.w, digestMismatch(y.tag, y.gotDigest, y.wantDigest)))
        ELSE IF ShouldRecord(z.isManifestTagRequest, z.gotDigest, z.wantDigest)
        THEN [z EXCEPT !.pc = "put"]
        ELSE Finish(z)

PutFailedMutReturnsError(x) ==
    Done(x, serveError(x.w, newRegError("writing digest for tag")))

\* Lines 175-177: the error of rekor.Put is logged and the handler goes on.
PutFailed(x) == Finish(x)

\* info, err = rekor.Put(ctx, tag, gotDigest), the TLog-First-Seen header,
\* and the rest of the response (lines 174-192).
\* Yields the handler, the log and whether email() has run.
RecordStep(x, entries, known, outcome, emailWorks) ==
    LET x1 == [x EXCEPT !.trace = Append(@, "put")]
        p == Put(entries, x1.tag, x1.gotDigest, outcome, known, emailWorks)
        y == [x1 EXCEPT !.info = p.info,
                        !.put = IF p.kind = "ok" THEN "ok" ELSE "error",
                        !.putErr = IF p.kind = "ok" THEN "" ELSE outcome,
                        !.writes = IF Len(p.entries) > Len(entries)
                                   THEN Append(@, p.entries[Len(p.entries)].uuid)
                                   ELSE @,
                        !.w.header = SetHeader(@, "TLog-First-Seen", "true")]
    IN  [called |-> p.called, entries |-> p.entries,
         x |-> IF p.kind = "fatal" THEN [x1 EXCEPT !.pc = "fatal"]
               ELSE IF p.kind = "error" THEN PutFailed(y)
               ELSE Finish(y)]

\* The response forwards the upstream response instead of a registry error.
Served(x) == x.pc = "done" /\ x.resp # <<>> /\ x.w.code = "" /\ x.w.status # 0

\* The first digest served for each tag, once exchange x is completed.
NoteServed(x) ==
    IF Served(x) /\ x.isManifestTagRequest /\ x.gotDigest # ""
       /\ firstServed[x.tag] = ""
    THEN [firstServed EXCEPT ![x.tag] = x.gotDigest]
    ELSE firstServed

\* ----------------------------------------------------------------- actions
\* The inputs a step draws: those of the environment when the handler is at
\* that step, one placeholder otherwise.  At most one GetLogEntryByUUID of a
\* lookup fails.
LookupInputs(x) ==
    IF x.pc # "lookup" THEN {LookupInput("ok", {}, TRUE)}
    ELSE LET hits == SearchIndex(log, SearchKey(x.tag))
             fails == {{}} \cup {{hits[i].uuid} : i \in 1..Len(hits)}
         IN  {LookupInput("roots", {}, TRUE), LookupInput("search", {}, TRUE)} \cup
             {LookupInput("ok", f, m) :
                 f \in fails, m \in IF emailOnce THEN {TRUE} ELSE BOOLEAN}

TokenInputs(x) ==
    IF x.pc = "token" THEN ServeTokenScenarios
    ELSE {TokenScenario(TRUE, 0, "", FALSE, 0, FALSE)}

FetchInputs(x) ==
    IF x.pc = "fetch" THEN UpstreamResults
    ELSE {[err |-> TRUE, status |-> 0, digest |-> ""]}

\* No response is waiting to be delivered.  Delivery (Recycle) touches only
\* the goroutine that wrote the response, so taking it first loses no
\* behaviour of the others.
NoneDone == \A h \in Handlers : hs[h].pc # "done"

\* A request is served on the lowest idle goroutine.
LowestIdle(h) ==
    /\ hs[h].pc = "idle"
    /\ \A g \in Handlers : g < h => hs[g].pc # "idle"

\* A request arrives and its handler runs up to rekor.Put, or to its end
\* when it does not record.  The only state other goroutines share with
\* this stretch is the log, read once by SearchIndex, and the identity.
Serve(h) ==
    /\ alive
    /\ NoneDone
    /\ LowestIdle(h)
    /\ \E r \in Requests :
         LET x0 == Handle(r) IN
         \E li \in LookupInputs(x0) :
         LET l == IF x0.pc = "lookup" THEN LookupStep(x0, log, emailOnce, li)
                  ELSE [called |-> emailOnce, x |-> x0] IN
         \E sc \in TokenInputs(l.x) :
         LET x2 == IF l.x.pc = "token" THEN TokenStep(l.x, sc) ELSE l.x IN
         \E up \in FetchInputs(x2) :
         LET x3 == IF x2.pc = "fetch" THEN FetchStep(x2, up) ELSE x2 IN
             /\ hs' = [hs EXCEPT ![h] = x3]
             /\ alive' = (x3.pc # "fatal")
             /\ emailOnce' = l.called
             /\ firstServed' = NoteServed(x3)
    /\ UNCHANGED <<log, conf>>

\* The handler records the binding and writes its response.
Record(h) ==
    /\ alive
    /\ NoneDone
    /\ hs[h].pc = "put"
    /\ Cardinality({i \in 1..Len(log) : Ours(log[i])}) < MaxPuts
    /\ \E outcome \in PutOutcomes :
       \E emailWorks \in IF emailOnce THEN {TRUE} ELSE BOOLEAN :
         LET p == RecordStep(hs[h], log, emailOnce, outcome, emailWorks) IN
             /\ hs' = [hs EXCEPT ![h] = p.x]
             /\ alive' = (p.x.pc # "fatal")
             /\ emailOnce' = p.called
             /\ log' = p.entries
             /\ firstServed' = NoteServed(p.x)
    /\ UNCHANGED conf

\* Goroutines have no identity: the exchanges in progress are kept in the
\* lowest slots, in their order.
Compact(f) ==
    LET busy == SelectSeq(f, LAMBDA x : x.pc # "idle")
    IN  [h \in Handlers |-> IF h <= Len(busy) THEN busy[h] ELSE Idle]

\* The response is delivered; the goroutine is free for the next request.
Recycle(h) ==
    /\ alive
    /\ hs[h].pc = "done"
    /\ hs' = Compact([hs EXCEPT ![h] = Idle])
    /\ UNCHANGED <<log, emailOnce, alive, firstServed, conf>>

Next ==
    \/ \E h \in Handlers : Serve(h)
    \/ \E h \in Handlers : Record(h)
    \/ \E h \in Handlers : Recycle(h)

Spec == Init /\ [][Next]_vars

\* ------------------------------------------------------------ properties
\* The exchanges whose handler has returned (or panicked).
Completed == {h \in Handlers : hs[h].pc = "done"}

\* The outbound calls made for exchange x.
Calls(x) == {x.trace[i] : i \in 1..Len(x.trace)}

\* The log rekor.Get of exchange x searched.
LogAt(x) == SubSeq(log, 1, x.at)

\* The entries of the log exchange x searched that are filed under its tag.
HitsAt(x) == SearchIndex(LogAt(x), SearchKey(x.tag))

\* Entry e passes every check of the entry verifier for tag t.
Accepts(e, t) == EntryStep(e, t, {}) = "email" /\ e.emails[1] = Me

\* The upstream response of exchange x reached the handler.
Fetched(x) == x.resp # <<>>

\* The response carries header n with the value the upstream sent.
Forwards(x, n) ==
    n \in DOMAIN x.w.header /\ x.w.header[n] = UpstreamHeader(x.resp[1])[n]

\* The response carries the TLog headers of entry e.
CitesEntry(x, e) ==
    /\ {"TLog-UUID", "TLog-LogIndex", "TLog-IntegratedTime"} \subseteq DOMAIN x.w.header
    /\ x.w.header["TLog-UUID"] = e.uuid
    /\ x.w.header["TLog-LogIndex"] = FormatDecimal(e.logIndex)
    /\ x.w.header["TLog-IntegratedTime"] = FormatRFC3339(e.integratedTime)

\* C1: every response that serves a tag carries the digest of the first
\* response served for that tag; a request whose upstream digest differs
\* from it is not served.
C1_SameDigestAsFirstServed ==
    \A h \in Completed :
        LET x == hs[h] IN
        (Served(x) /\ x.isManifestTagRequest /\ x.gotDigest # "")
            => x.gotDigest = firstServed[x.tag]

\* C2: when the lookup returned a digest and the upstream response carries
\* another one (or none), the response is 400 TAG_INVALID citing both
\* digests, the upstream body and headers are not forwarded and rekor.Put is
\* not called.
C2_MismatchRejected ==
    \A h \in Completed :
        LET x == hs[h] IN
        (Fetched(x) /\ x.wantDigest # "" /\ x.gotDigest # x.wantDigest)
            => /\ x.w.status = StatusBadRequest
               /\ x.w.code = "TAG_INVALID"
               /\ x.w.message = <<"tag %q mismatch; got %q, want %q",
                                  x.tag, x.gotDigest, x.wantDigest>>
               /\ x.w.body = "error"
               /\ \A n \in DOMAIN UpstreamHeader(x.resp[1]) : ~Forwards(x, n)
               /\ "put" \notin Calls(x)
               /\ x.writes = <<>>

C2_Witness ==
    \E h \in Completed :
        /\ Fetched(hs[h])
        /\ hs[h].wantDigest = DigestA
        /\ hs[h].gotDigest = DigestB
        /\ hs[h].w.code = "TAG_INVALID"

C8_OtherMethodsDenied ==
    \A h \in Handlers :
        LET x == hs[h] IN
        (x.pc # "idle" /\ x.r.method \notin {"GET", "HEAD"})
            => /\ x.pc = "done"
               /\ x.w.status = StatusMethodNotAllowed
               /\ x.w.code = "DENIED"
               /\ x.w.body = "error"
               /\ x.trace = <<>>
               /\ x.writes = <<>>

C8_Witness ==
    \E h \in Completed :
        /\ hs[h].r.method = "POST"
        /\ hs[h].r.parts = PathTag
        /\ hs[h].w.status = StatusMethodNotAllowed

\* C9: the response to a blob request never carries the upstream body, and
\* forwards the upstream status and headers; the response to any other
\* request that passes the consistency rule carries the upstream body.
C9_BlobBodyNotCopied ==
    \A h \in Completed :
        LET x == hs[h] IN
        Len(x.r.parts) >= 4 =>
            /\ KindOf(x.r.parts) = "blobs" =>
                 /\ x.w.body # "upstream"
                 /\ (Fetched(x) /\ MethodAllowed(x.r.method)) =>
                      /\ x.w.status = x.resp[1].status
                      /\ \A n \in DOMAIN UpstreamHeader(x.resp[1]) : Forwards(x, n)
            /\ (KindOf(x.r.parts) # "blobs" /\ Served(x)) => x.w.body = "upstream"

C9_Witness ==
    \E h \in Completed :
        /\ hs[h].r.parts = PathBlob
        /\ Fetched(hs[h])
        /\ hs[h].resp[1].status = StatusOK
        /\ hs[h].w.status = StatusOK
        /\ hs[h].w.body = "none"

\* C5: a request whose reference starts with sha256: makes no call to the
\* log, leaves the log as it was, and its response is the upstream status
\* and headers with no TLog header added.
C5_DigestRequestsPassThrough ==
    \A h \in Handlers :
        LET x == hs[h] IN
        (x.pc # "idle" /\ MethodAllowed(x.r.method) /\ Len(x.r.parts) >= 4
         /\ HasPrefixSha256(RefOf(x.r.parts)))
            => /\ Calls(x) \subseteq {"token", "fetch"}
               /\ x.writes = <<>>
               /\ x.pc = "done"
               /\ Fetched(x) =>
                    /\ x.w.status = x.resp[1].status
                    /\ x.w.header = UpstreamHeader(x.resp[1])

C5_Witness ==
    \E h \in Completed :
        /\ hs[h].r.parts = PathDigest
        /\ Fetched(hs[h])
        /\ hs[h].gotDigest = DigestA
        /\ hs[h].w.status = StatusOK
        /\ hs[h].w.header = UpstreamHeader(hs[h].resp[1])

\* C4: when the log searched for tag t holds an accepted entry binding t
\* to d and the upstream digest is again d, the request is served, adds no
\* entry, carries the TLog headers of an accepted entry binding t to d, and
\* does not carry TLog-First-Seen.
C4_SecondSightingServedFromLog ==
    \A h \in Completed :
        LET x == hs[h]
            bound == {i \in 1..x.at : Accepts(log[i], x.tag) /\ log[i].digest = x.gotDigest}
        IN  (x.isManifestTagRequest /\ Fetched(x) /\ x.gotDigest # "" /\ bound # {})
                => /\ Served(x)
                   /\ x.writes = <<>>
                   /\ "put" \notin Calls(x)
                   /\ \E i \in bound : CitesEntry(x, log[i])
                   /\ "TLog-First-Seen" \notin DOMAIN x.w.header

\* An entry with a Fulcio certificate issued to another identity.
Foreign(e) ==
    /\ e.body = "ok"
    /\ e.publicKey = "cert"
    /\ e.chain
    /\ Len(e.emails) = 1
    /\ e.emails[1] # Me

\* C6: a request for tag t whose log holds, under t's key, only entries
\* certified for another identity behaves as a first sighting: the lookup
\* neither fails nor ends the process, and pins no digest.
C6_ForeignEntriesIgnored ==
    \A h \in Handlers :
        LET x == hs[h]
            hits == HitsAt(x)
        IN  (x.isManifestTagRequest /\ "lookup" \in Calls(x) /\ hits # <<>>
             /\ \A i \in 1..Len(hits) : Foreign(hits[i]))
                => /\ x.w.body # "aborted"
                   /\ ~(x.pc = "fatal" /\ x.trace = <<"lookup">>)
                   /\ x.wantDigest = ""

\* C7: when the log searched for tag t holds two accepted entries with
\* distinct digests, the response is 500, no digest is picked and neither
\* the upstream fetch nor a log write is made.
C7_ConflictIsTerminal ==
    \A h \in Completed :
        LET x == hs[h]
            acc == {i \in 1..x.at : Accepts(log[i], x.tag)}
        IN  (x.isManifestTagRequest /\ "lookup" \in Calls(x)
             /\ \E i, j \in acc : log[i].digest # log[j].digest)
                => /\ x.w.status = StatusInternalServerError
                   /\ x.w.code = "INTERNAL_ERROR"
                   /\ x.wantDigest = ""
                   /\ Calls(x) = {"lookup"}
                   /\ x.writes = <<>>

\* C10: a response carries TLog-First-Seen only if rekor.Put created a log
\* entry for the request and returned it.
C10_FirstSeenOnlyWhenRecorded ==
    \A h \in Completed :
        LET x == hs[h] IN
        "TLog-First-Seen" \in DOMAIN x.w.header
            => /\ x.put = "ok"
               /\ Len(x.writes) = 1
               /\ \E i \in 1..Len(log) : log[i].uuid = x.writes[1] /\ CitesEntry(x, log[i])

Duplicates(hits, t) ==
    /\ Len(hits) >= 2
    /\ \A i \in 1..Len(hits) : Accepts(hits[i], t) /\ hits[i].digest = hits[1].digest

\* C12: when the entries under the key of tag t are duplicates of one
\* binding (t, d), as two concurrent first sightings leave them, rekor.Get
\* returns d and the info of one of them, not a conflict error, and a
\* request whose upstream digest is d is served.
C12_DuplicateBindingsCollapse ==
    /\ \A t \in Tags :
        LET hits == SearchIndex(log, Sha256Hex(t)) IN
        Duplicates(hits, t) =>
            LET g == Get(log, t, "ok", {}, emailOnce, TRUE) IN
                /\ g.kind = "ok"
                /\ g.digest = hits[1].digest
                /\ \E i \in 1..Len(hits) : g.info = <<InfoOf(hits[i])>>
    /\ \A h \in Completed :
        LET x == hs[h] IN
        (x.isManifestTagRequest /\ "lookup" \in Calls(x) /\ Duplicates(HitsAt(x), x.tag)
         /\ Fetched(x) /\ x.gotDigest = HitsAt(x)[1].digest)
            => /\ Served(x)
               /\ x.w.status = x.resp[1].status
               /\ x.w.body = "upstream"

C12_Witness ==
    \E h \in Completed :
        /\ hs[h].isManifestTagRequest
        /\ Duplicates(HitsAt(hs[h]), hs[h].tag)
        /\ hs[h].wantDigest = DigestA
        /\ hs[h].gotDigest = DigestA
        /\ Served(hs[h])
        /\ "TLog-First-Seen" \notin DOMAIN hs[h].w.header

\* C13: once the log holds two accepted entries for tag t with different
\* digests, the tag is wedged: every later request for t fails with a
\* registry error and t is never served again.
C13_WedgedTagNeverServed ==
    \A h \in Completed :
        LET x == hs[h]
            acc == {i \in 1..x.at : Accepts(log[i], x.tag)}
        IN  (x.isManifestTagRequest /\ "lookup" \in Calls(x)
             /\ \E i, j \in acc : log[i].digest # log[j].digest)
                => /\ ~Served(x)
                   /\ x.w.body # "upstream"
                   /\ x.w.status \notin {0, StatusOK}

\* C14 as stated: the upstream registry is fetched only for paths
\* /v2/<repo-path>/<kind>/<ref> whose kind is manifests or blobs.
C14_OnlyManifestsAndBlobsFetched ==
    \A h \in Handlers :
        LET x == hs[h] IN
        "fetch" \in Calls(x)
            => Len(x.r.parts) >= 4 /\ KindOf(x.r.parts) \in {"manifests", "blobs"}

\* C14, amended: the upstream registry is fetched only for GET and HEAD of a
\* path /v2/<repo-path>/<kind>/<ref> with a valid repository, whatever the
\* kind; a request of any kind other than manifests and blobs (for example
\* tags/list) makes no call to the log and its response is the upstream
\* status, headers and body.
C14_AnyKindIsProxied ==
    /\ \A h \in Handlers :
        LET x == hs[h] IN
        "fetch" \in Calls(x)
            => /\ MethodAllowed(x.r.method)
               /\ Len(x.r.parts) >= 5
               /\ ~NewRepositoryFails(RepoParts(x.r.parts))
    /\ \A h \in Completed :
        LET x == hs[h] IN
        (MethodAllowed(x.r.method) /\ Len(x.r.parts) >= 5
         /\ ~NewRepositoryFails(RepoParts(x.r.parts))
         /\ KindOf(x.r.parts) \notin {"manifests", "blobs"})
            => /\ Calls(x) \subseteq {"token", "fetch"}
               /\ x.writes = <<>>
               /\ Fetched(x) =>
                    /\ x.w.status = x.resp[1].status
                    /\ x.w.header = UpstreamHeader(x.resp[1])
                    /\ x.w.body = "upstream"

C14_Witness ==
    \E h \in Completed :
        /\ hs[h].r.parts = PathTagsList
        /\ Fetched(hs[h])
        /\ hs[h].w.status = StatusOK
        /\ hs[h].w.body = "upstream"

\* C15: the identity is fetched before any request is handled and is
\* written once: whenever a handler has started, email() has already run,
\* and it never runs again.
C15_IdentityInitializedBeforeServing ==
    [][ /\ emailOnce => emailOnce'
        /\ (\E h \in Handlers : hs'[h].pc # "idle") => emailOnce ]_vars

\* C16: no failure met while handling a request ends the process.
C16_RuntimeErrorsDoNotTerminate ==
    alive /\ \A h \in Handlers : hs[h].pc # "fatal"

\* -------------------------------------------------- recording and lookup
\* rekor.Put and rekor.Get as functions of the log, over tag strings of
\* several repositories and tags: img and library/img name the same
\* Docker Hub repository.
MaxKeyPuts == 3

TagStrings ==
    { NewTag(NewRepository(segs), n) :
        segs \in {<<"reg.example", "img">>, <<"img">>, <<"library", "img">>},
        n \in ValidTagNames }

KeyInit ==
    /\ log = <<>>
    /\ emailOnce = TRUE
    /\ alive = TRUE
    /\ hs = [h \in Handlers |-> Idle]
    /\ firstServed = [t \in Tags |-> ""]
    /\ conf = DefaultConf

\* rekor.Put(ctx, tag, digest) succeeds.
KeyPut(tag, digest) ==
    /\ Len(log) < MaxKeyPuts
    /\ log' = Put(log, tag, digest, "ok", emailOnce, TRUE).entries
    /\ UNCHANGED <<emailOnce, alive, hs, firstServed, conf>>

KeyNext == \E tag \in TagStrings, digest \in {DigestA, DigestB} : KeyPut(tag, digest)

KeySpec == KeyInit /\ [][KeyNext]_vars

\* C17: the key rekor.Put files an entry for tag t under is the key
\* rekor.Get searches by for t, and is hex(SHA-256(t)): an entry recorded
\* for t is among the search hits for t and among those of no other tag
\* string, so rekor.Get reports a first sighting exactly for the tags
\* without an entry.
C17_RecordAndLookupKeysAgree ==
    \A t \in TagStrings :
        LET hits == SearchIndex(log, SearchKey(t))
            g == Get(log, t, "ok", {}, emailOnce, TRUE)
        IN  /\ \A i \in 1..Len(log) :
                /\ log[i].key = Sha256Hex(log[i].tag)
                /\ (\E j \in 1..Len(hits) : hits[j] = log[i]) <=> log[i].tag = t
            /\ (g.kind = "ok" /\ g.digest = "") <=> (\A i \in 1..Len(log) : log[i].tag # t)

C17_Witness ==
    /\ Len(log) = MaxKeyPuts
    /\ log[1].tag # log[2].tag
    /\ log[1].tag[2] = log[2].tag[2]
    /\ Get(log, log[1].tag, "ok", {}, emailOnce, TRUE).digest = log[1].digest
    /\ Get(log, log[2].tag, "ok", {}, emailOnce, TRUE).digest = log[2].digest

\* The log without its i-th entry.
Without(entries, i) == SubSeq(entries, 1, i - 1) \o SubSeq(entries, i + 1, Len(entries))

\* C18: an entry that fails a precondition of the entry verifier is skipped
\* without an error: on the log a request searched, with the log service
\* and the identity available, rekor.Get returns what it returns on that
\* log without the entry.
C18_RejectedEntriesAreSkipped ==
    \A h \in Handlers :
        LET x == hs[h] IN
        (x.isManifestTagRequest /\ "lookup" \in Calls(x)) =>
            \A i \in 1..x.at :
                ~Accepts(log[i], x.tag) =>
                    LET with == Get(LogAt(x), x.tag, "ok", {}, TRUE, TRUE)
                        without == Get(Without(LogAt(x), i), x.tag, "ok", {}, TRUE, TRUE)
                    IN  /\ with.kind = without.kind
                        /\ with.digest = without.digest
                        /\ with.info = without.info

\* C19 as stated: a tag request whose upstream response has no
\* Docker-Content-Digest is not recorded, not checked, and passed through,
\* whether or not the lookup returned a digest.
C19_NoDigestPassesThrough ==
    \A h \in Completed :
        LET x == hs[h] IN
        (x.isManifestTagRequest /\ Fetched(x) /\ x.gotDigest = "")
            => /\ Served(x)
               /\ x.w.status = x.resp[1].status
               /\ x.w.body = "upstream"
               /\ "put" \notin Calls(x)

\* C19, amended: a tag request whose upstream response has no
\* Docker-Content-Digest is never recorded; it is passed through when the
\* lookup returned no digest, and rejected by the consistency rule with 400
\* TAG_INVALID (got "") when the lookup returned one.
C19_NoDigestIsCheckedWhenBound ==
    /\ \A h \in Handlers : hs[h].pc = "put" => hs[h].gotDigest # ""
    /\ \A h \in Completed :
        LET x == hs[h] IN
        (x.isManifestTagRequest /\ Fetched(x) /\ x.gotDigest = "")
            => /\ "put" \notin Calls(x)
               /\ x.writes = <<>>
               /\ "TLog-First-Seen" \notin DOMAIN x.w.header
               /\ x.wantDigest = "" =>
                    /\ Served(x)
                    /\ x.w.status = x.resp[1].status
                    /\ x.w.header = UpstreamHeader(x.resp[1])
                    /\ x.w.body = "upstream"
               /\ x.wantDigest # "" =>
                    /\ x.w.status = StatusBadRequest
                    /\ x.w.code = "TAG_INVALID"
                    /\ x.w.message = <<"tag %q mismatch; got %q, want %q",
                                       x.tag, "", x.wantDigest>>
                    /\ x.w.body = "error"

C19_Witness ==
    \E h \in Completed :
        /\ hs[h].isManifestTagRequest
        /\ Fetched(hs[h])
        /\ hs[h].gotDigest = ""
        /\ hs[h].wantDigest = DigestA
        /\ hs[h].w.code = "TAG_INVALID"

\* The requests that reach rekor.Get.
TagRequests == {r \in Requests : Handle(r).pc = "lookup"}

\* The orders in which a manifest-by-tag request makes its outbound calls.
TagRequestOrders ==
    { <<"lookup">>,
      <<"lookup", "token">>,
      <<"lookup", "token", "fetch">>,
      <<"lookup", "fetch">>,
      <<"lookup", "token", "fetch", "put">>,
      <<"lookup", "fetch", "put">> }

InvalidReference(parts) ==
    /\ parts \notin {PathRoot, PathRootBare}
    /\ \/ SlicePanics(parts)
       \/ NewRepositoryFails(RepoParts(parts))
       \/ IsManifestTagRequest(parts) /\ NewTagFails(RefOf(parts))

\* C21: every GET or HEAD request under /v2/, other than the API root,
\* whose path yields no valid repository reference is answered with status
\* 400 and code NAME_INVALID, after no outbound call: its handler never
\* ends without a registry-error response.
C21_InvalidReferenceIsNameInvalid ==
    \A h \in Completed :
        LET x == hs[h] IN
        (MethodAllowed(x.r.method) /\ InvalidReference(x.r.parts)) =>
            /\ x.w.status = StatusBadRequest
            /\ x.w.code = "NAME_INVALID"
            /\ x.trace = <<>>

\* ------------------------------------------- identity-token failures
\* The response rekor.Put failing at its identity-token fetch leads to, for
\* a handler about to record.
AfterIdtokenFailure(x) == RecordStep(x, log, emailOnce, "idtoken", TRUE).x

\* C22 as stated: when the identity-token fetch of rekor.Put fails, the
\* response of the request is status 500.
C22_IdtokenFailureIs500 ==
    \A h \in Completed :
        hs[h].putErr = "idtoken" => hs[h].w.status = StatusInternalServerError

\* C22: when the identity-token fetch of rekor.Put fails, rekor.Put returns
\* the error to the handler, which logs it and goes on: the request is
\* answered with the upstream status and no registry error, nothing is
\* written to the log and no TLog-UUID header is set.
C22_IdtokenFailureIsSwallowed ==
    /\ \A h \in Handlers :
          hs[h].pc = "put" =>
              LET y == AfterIdtokenFailure(hs[h]) IN
              /\ y.pc = "done"
              /\ y.putErr = "idtoken"
    /\ \A h \in Completed :
          LET x == hs[h] IN
          x.putErr = "idtoken" =>
              /\ Served(x)
              /\ x.w.status = x.resp[1].status
              /\ x.writes = <<>>
              /\ "TLog-UUID" \notin DOMAIN x.w.header

C22_Witness ==
    \E h \in Completed :
        /\ hs[h].putErr = "idtoken"
        /\ hs[h].w.status = StatusOK
        /\ hs[h].trace = <<"lookup", "token", "fetch", "put">>

\* ----------------------------------------------------- upstream auth
\* One exchange at a time, on an empty log, against every answer of the
\* registry and of its token realm.
TokenInit ==
    /\ log = <<>>
    /\ emailOnce = FALSE
    /\ alive = TRUE
    /\ hs = [h \in Handlers |-> Idle]
    /\ firstServed = [t \in Tags |-> ""]
    /\ conf = DefaultConf

\* A request arrives while no other is in progress; its handler runs up to
\* rekor.Put, or to its end.  The handler notes the answers getToken met
\* and the Authorization header of the upstream request.
TokenServe(h) ==
    /\ alive
    /\ \A g \in Handlers : hs[g].pc = "idle"
    /\ LowestIdle(h)
    /\ \E r \in Requests, sc \in TokenScenarios, up \in UpstreamResults :
         LET x0 == Handle(r)
             l == IF x0.pc = "lookup"
                  THEN LookupStep(x0, log, emailOnce, LookupInput("ok", {}, TRUE))
                  ELSE [called |-> emailOnce, x |-> x0]
             x2 == IF l.x.pc = "token" THEN TokenStep(l.x, sc) ELSE l.x
             x2p == IF l.x.pc \in {"token", "fetch"}
                    THEN [x2 EXCEPT !.probe =
                             <<[sc |-> sc, authorization |-> x2.authorization]>>]
                    ELSE x2
             x3 == IF x2p.pc = "fetch" THEN FetchStep(x2p, up) ELSE x2p
         IN  /\ hs' = [hs EXCEPT ![h] = x3]
             /\ alive' = (x3.pc # "fatal")
             /\ emailOnce' = l.called
             /\ firstServed' = NoteServed(x3)
    /\ UNCHANGED <<log, conf>>

TokenNext ==
    \/ \E h \in Handlers : TokenServe(h)
    \/ \E h \in Handlers : Record(h)
    \/ \E h \in Handlers : Recycle(h)

TokenSpec == TokenInit /\ [][TokenNext]_vars

\* The token the claim gives for each answer: <<t>>, or <<>> for an error.
ClaimedToken(sc) ==
    IF ~sc.pingErr /\ sc.ping = StatusOK THEN <<"">>
    ELSE IF /\ ~sc.pingErr /\ sc.ping = StatusUnauthorized
            /\ sc.scheme = "bearer"
            /\ ~sc.realmErr /\ sc.realm = StatusOK /\ sc.decodes
    THEN <<"tok">>
    ELSE <<>>

\* The same, but a 401 that carries no challenge at all is the empty token
\* and no error.
TokenOrError(sc) ==
    IF ~sc.pingErr /\ sc.ping = StatusUnauthorized /\ sc.scheme = ""
    THEN <<"">>
    ELSE ClaimedToken(sc)

\* Exchange x forwarded the inbound Authorization without calling getToken,
\* or called it and went on as expected gives: an error is answered 500
\* INTERNAL_ERROR before any upstream fetch, a token is sent as bearer
\* credential of the fetch.
AuthAsExpected(x, expected) ==
    LET sent == x.probe[1].authorization
        e == expected[x.probe[1].sc]
    IN  IF x.r.authorization # ""
        THEN /\ "token" \notin Calls(x)
             /\ sent = x.r.authorization
             /\ "fetch" \in Calls(x)
        ELSE /\ "token" \in Calls(x)
             /\ IF e = <<>>
                THEN /\ x.pc = "done"
                     /\ x.w.status = StatusInternalServerError
                     /\ x.w.code = "INTERNAL_ERROR"
                     /\ "fetch" \notin Calls(x)
                ELSE /\ sent = Bearer(e[1])
                     /\ "fetch" \in Calls(x)

\* C23 as stated: an inbound Authorization header is forwarded and getToken
\* is not called; otherwise getToken returns the empty token on 200, the
\* realm's token on a 401 whose first challenge is bearer, and an error in
\* every other case, a 401 without a bearer challenge included; an error
\* is answered 500 INTERNAL_ERROR with no upstream fetch.
C23_TokenForAsClaimed ==
    \A h \in Handlers :
        hs[h].probe # <<>> =>
            AuthAsExpected(hs[h], [sc \in TokenScenarios |-> ClaimedToken(sc)])

\* C23: as above, except that a 401 without any challenge is taken as a
\* registry that requires no auth: getToken returns the empty token and no
\* error, and the upstream fetch is made with an empty bearer credential.
\* A 401 whose first challenge has another scheme is an error.
C23_TokenFor ==
    \A h \in Handlers :
        hs[h].probe # <<>> =>
            AuthAsExpected(hs[h], [sc \in TokenScenarios |-> TokenOrError(sc)])

C23_Witness ==
    \E h \in Completed :
        /\ hs[h].probe # <<>>
        /\ hs[h].probe[1].sc = TokenScenario(FALSE, 401, "", FALSE, 0, FALSE)
        /\ hs[h].r.authorization = ""
        /\ hs[h].probe[1].authorization = Bearer("")
        /\ hs[h].trace = <<"token", "fetch">>
        /\ Served(hs[h])

\* ------------------------------------------------------- cancellation
\* The client of an exchange in progress disconnects: net/http cancels
\* r.Context().  proxy() hands ctx to rekor.Get and rekor.Put, which hand
\* it to idtoken(), and none of them reads it; the upstream request and
\* the requests of getToken are built without it.
Cancel(h) ==
    /\ alive
    /\ hs[h].pc = "put"
    /\ hs[h].cancelled = <<>>
    /\ hs' = [hs EXCEPT ![h].cancelled = <<Len(hs[h].trace)>>]
    /\ UNCHANGED <<log, emailOnce, alive, firstServed, conf>>

CancelInit ==
    /\ log = <<>>
    /\ emailOnce = FALSE
    /\ alive = TRUE
    /\ hs = [h \in Handlers |-> Idle]
    /\ firstServed = [t \in Tags |-> ""]
    /\ conf = DefaultConf

CancelNext ==
    \/ \E h \in Handlers : Serve(h)
    \/ \E h \in Handlers : Record(h)
    \/ \E h \in Handlers : Recycle(h)
    \/ \E h \in Handlers : Cancel(h)

CancelSpec == CancelInit /\ [][CancelNext]_vars

\* C24: once the inbound request of an exchange is cancelled, no further
\* outbound call is made for it and it writes nothing to the log.
C24_CancelledExchangeMakesNoCall ==
    \A h \in Handlers :
        hs[h].cancelled # <<>> =>
            /\ Len(hs[h].trace) = hs[h].cancelled[1]
            /\ hs[h].writes = <<>>

\* ------------------------------------------------- no per-tag state
\* What rekor.Get can return for the tag of exchange x on the log it
\* searched, whichever single fetch by uuid fails: the digests and infos of
\* its successful returns.
LookupsAt(x) ==
    LET hits == HitsAt(x)
        fails == {{}} \cup {{hits[i].uuid} : i \in 1..Len(hits)}
        gets == {Get(LogAt(x), x.tag, "ok", f, TRUE, TRUE) : f \in fails}
    IN  {[digest |-> g.digest, info |-> g.info] : g \in {k \in gets : k.kind = "ok"}}

\* C25: the handlers keep no per-tag state.  Whatever the process handled
\* before, the digest an exchange checks against is the one rekor.Get
\* computes from the log it searched (none when the request is not for a
\* manifest by tag), and whether the exchange rejects, records or serves
\* is a function of that digest, the kind of request and the upstream
\* response alone.
C25_DecisionFromRequestLogAndUpstream ==
    \A h \in Handlers :
        LET x == hs[h] IN
        Fetched(x) =>
            /\ IF x.isManifestTagRequest
               THEN \E g \in LookupsAt(x) :
                       /\ g.digest = x.wantDigest
                       /\ "put" \notin Calls(x) => g.info = x.info
               ELSE x.wantDigest = "" /\ x.info = <<>>
            /\ IF ConsistencyFails(x.wantDigest, x.resp[1].digest)
               THEN /\ x.pc = "done"
                    /\ x.w.code = "TAG_INVALID"
                    /\ "put" \notin Calls(x)
               ELSE IF ShouldRecord(x.isManifestTagRequest, x.resp[1].digest,
                                    x.wantDigest)
               THEN x.pc = "put" \/ "put" \in Calls(x)
               ELSE Served(x) /\ "put" \notin Calls(x)

\* A tag is served with a digest other than the one this process served
\* for it before: the log, still empty, is all the handler consults.
C25_Witness ==
    \E h \in Completed :
        /\ hs[h].isManifestTagRequest
        /\ Served(hs[h])
        /\ hs[h].at = 0
        /\ hs[h].gotDigest # ""
        /\ firstServed[hs[h].tag] \notin {"", hs[h].gotDigest}

\* ------------------------------------------------ retried recording
\* A request for the manifest of the tag arrives while no other is in
\* progress; its handler runs up to rekor.Put, or to its end.
LiveServe(h) ==
    /\ alive
    /\ \A g \in Handlers : hs[g].pc = "idle"
    /\ LowestIdle(h)
    /\ \E r \in {q \in Requests : q.method = "GET" /\ q.parts = PathTag} :
       \E x0 \in {Handle(r)} :
       \E li \in LookupInputs(x0) :
       \E l \in {LookupStep(x0, log, emailOnce, li)} :
       \E sc \in TokenInputs(l.x) :
       \E x2 \in {IF l.x.pc = "token" THEN TokenStep(l.x, sc) ELSE l.x} :
       \E up \in FetchInputs(x2) :
       \E x3 \in {IF x2.pc = "fetch" THEN FetchStep(x2, up) ELSE x2} :
             /\ hs' = [hs EXCEPT ![h] = x3]
             /\ alive' = (x3.pc # "fatal")
             /\ emailOnce' = l.called
             /\ firstServed' = NoteServed(x3)
    /\ UNCHANGED <<log, conf>>

\* The request finds no digest for its tag and gets a digest from the
\* upstream: its handler is about to record.
FirstSighting(h) == LiveServe(h) /\ hs'[h].pc = "put"

\* rekor.Put succeeds: the identity, the issuer and the log all answer.
RecordOk(h) == Record(h) /\ hs'[h].put = "ok"

LiveInit ==
    /\ log = <<>>
    /\ emailOnce = FALSE
    /\ alive = TRUE
    /\ hs = [h \in Handlers |-> Idle]
    /\ firstServed = [t \in Tags |-> ""]
    /\ conf = DefaultConf

\* Requests keep arriving and are answered by the upstream, responses are
\* delivered, and the issuer and the log answer again and again.
Fairness ==
    \A h \in Handlers :
        /\ WF_vars(Recycle(h))
        /\ WF_vars(Record(h))
        /\ SF_vars(FirstSighting(h))
        /\ SF_vars(RecordOk(h))

LiveNext ==
    \/ \E h \in Handlers : LiveServe(h)
    \/ \E h \in Handlers : Record(h)
    \/ \E h \in Handlers : Recycle(h)

LiveSpec == LiveInit /\ [][LiveNext]_vars /\ Fairness

\* The log holds an entry the entry verifier accepts for tag t.
Bound(t) == \E i \in 1..Len(log) : Accepts(log[i], t)

\* C26: after a first-sighting request whose rekor.Put failed and left the
\* tag unbound, a later request for the tag attempts rekor.Put again, and
\* the tag is eventually bound in the log.
C26_FailedRecordingIsRetried ==
    (\E h \in Completed :
        /\ hs[h].put = "error"
        /\ ~Bound(hs[h].tag))
    ~> Bound(TagOf(PathTag))

\* ---------------------------------------------- first sightings
\* C27: rekor.Get reports a first sighting (no digest, no error) only when
\* the log it searched holds no entry for the tag that the entry verifier
\* accepts; a failed fetch of an entry by uuid never makes a bound tag a
\* first sighting that the handler records again.
C27_FirstSightingOnlyWhenUnbound ==
    \A h \in Handlers :
        LET x == hs[h] IN
        (/\ x.isManifestTagRequest
         /\ Len(x.trace) >= 2
         /\ x.wantDigest = "") =>
            \A i \in 1..x.at : ~Accepts(log[i], x.tag)

\* ---------------------------------------------------- TLog headers
TLogHeaders == {"TLog-UUID", "TLog-LogIndex", "TLog-IntegratedTime"}

\* Entry number i of the log is what the TLog headers of exchange x may
\* cite: an entry the lookup of x accepted for its tag, or the entry x
\* created, attesting the digest of the response.
Attests(x, i) ==
    /\ CitesEntry(x, log[i])
    /\ log[i].tag = x.tag
    /\ "Docker-Content-Digest" \in DOMAIN x.w.header
    /\ log[i].digest = x.w.header["Docker-Content-Digest"]
    /\ \/ i <= x.at /\ Accepts(log[i], x.tag)
       \/ log[i].uuid \in {x.writes[k] : k \in 1..Len(x.writes)}

\* C28: in every response TLog-UUID, TLog-LogIndex and TLog-IntegratedTime
\* are all present or all absent; when present they are those of one log
\* entry, accepted by the lookup of the request or created by it, whose
\* attested tag is the requested tag and whose attested digest is the
\* Docker-Content-Digest of the served response; a registry-error response
\* carries none of them.
C28_TLogHeadersCiteOneEntry ==
    \A h \in Completed :
        LET x == hs[h]
            set == TLogHeaders \cap DOMAIN x.w.header
        IN  /\ set \in {{}, TLogHeaders}
            /\ ~Served(x) => set = {}
            /\ set = TLogHeaders =>
                  /\ x.isManifestTagRequest
                  /\ Forwards(x, "Docker-Content-Digest")
                  /\ Cardinality({i \in 1..Len(log) : Attests(x, i)}) = 1

C28_Witness ==
    \E h \in Completed :
        /\ Served(hs[h])
        /\ hs[h].writes = <<>>
        /\ hs[h].wantDigest # ""
        /\ \E i \in 1..hs[h].at : Attests(hs[h], i)

\* ------------------------------------------------ log-client timeouts
\* The durations FULCIO_TIMEOUT and REKOR_TIMEOUT are set to, in minutes.
Durations == {1, 2}

\* params.SetTimeout(...) of each log-client operation.
Timeout(op, c) ==
    IF op = "CreateLogEntry" THEN c.FulcioTimeout ELSE c.RekorTimeout

TimeoutInit ==
    /\ log = <<>>
    /\ emailOnce = TRUE
    /\ alive = TRUE
    /\ hs = [h \in Handlers |-> Idle]
    /\ firstServed = [t \in Tags |-> ""]
    /\ conf \in {Conf(f, r) : f \in Durations, r \in Durations}

\* rekor.Put(ctx, tag, digest) succeeds: one CreateLogEntry.
TimeoutPut(tag, digest) ==
    /\ Len(log) < MaxKeyPuts
    /\ log' = Put(log, tag, digest, "ok", emailOnce, TRUE).entries
    /\ conf' = [conf EXCEPT !.used["CreateLogEntry"] = Timeout("CreateLogEntry", conf)]
    /\ UNCHANGED <<emailOnce, alive, hs, firstServed>>

\* rekor.Get(ctx, tag): one SearchIndex, one GetLogEntryByUUID per hit.
TimeoutGet(tag) ==
    /\ conf' = [conf EXCEPT
           !.used["SearchIndex"] = Timeout("SearchIndex", conf),
           !.used["GetLogEntryByUUID"] =
               IF SearchIndex(log, SearchKey(tag)) = <<>> THEN @
               ELSE Timeout("GetLogEntryByUUID", conf)]
    /\ UNCHANGED <<log, emailOnce, alive, hs, firstServed>>

TimeoutNext ==
    \/ \E tag \in TagStrings, digest \in {DigestA, DigestB} : TimeoutPut(tag, digest)
    \/ \E tag \in TagStrings : TimeoutGet(tag)

TimeoutSpec == TimeoutInit /\ [][TimeoutNext]_vars

\* C29: every log-client operation is given the timeout REKOR_TIMEOUT
\* configures, whatever FULCIO_TIMEOUT is.
C29_LogCallsUseRekorTimeout ==
    \A op \in LogOps : conf.used[op] \in {0, conf.RekorTimeout}

====
